---- MODULE Spec2Model ----
(***************************************************************************)
(* A model of ragout's Term (src/src/components/term.rs): the tree         *)
(* Term -> Container -> Text, the placement operations that grow it and    *)
(* the focus/cursor tracker.  Geometry is u16, as in the source.           *)
(***************************************************************************)
EXTENDS Integers, Sequences, FiniteSets, TLC

VARIABLES term, ret, debug_assertions

vars == <<term, ret, debug_assertions>>

(***************************************************************************)
(* Bounds of the model.                                                    *)
(***************************************************************************)
\* the most Containers a Term holds in the model
MaxContainers == 2
\* the most Text nodes the whole Term holds in the model
MaxItems == 2

(***************************************************************************)
(* u16 arithmetic.  An overflowing operation wraps (release build) or      *)
(* panics (debug build, overflow checks on); the handlers below test the   *)
(* overflow of each operation they execute, in execution order.            *)
(***************************************************************************)
U16 == 65536

WrapU16(n) == n % U16

AddU16(a, b) == WrapU16(a + b)

SubU16(a, b) == WrapU16(a - b)

\* a * b mod 2^16, computed in parts that stay below 2^31
MulU16(a, b) == WrapU16(((a % 256) * b) + (((a \div 256) * b) % 256) * 256)

AddOverflows(a, b) == a + b >= U16

SubOverflows(a, b) == a < b

\* a * b > 65535, decided without forming a product above 2^31
MulOverflows(a, b) == a # 0 /\ b > (U16 - 1) \div a

(***************************************************************************)
(* The Geometry Resolver (crate::space) and the Container / Text types.    *)
(***************************************************************************)
\* Border::{None, Uniform, Manual} and Padding::{None, Inner}: the extra
\* width and height the decoration consumes, [wextra, hextra]
resolve_wh(border, padding) ==
    LET b == IF border = "None" THEN 0 ELSE 2
        p == IF padding = "None" THEN 0 ELSE 2
    IN  <<b + p, b + p>>

\* the offset of the content's leading edge inside the decoration
lead(border, padding) ==
    (IF border = "None" THEN 0 ELSE 1) + (IF padding = "None" THEN 0 ELSE 1)

\* Area::unwrap: a fixed size, or the whole of the parent
unwrap(area, parentwh) ==
    IF area.kind = "Fix" THEN <<area.w, area.h>> ELSE parentwh

\* Pos::point on one axis: the leading edge for Start and Center, the far
\* edge for End
point1(pos, extent) ==
    CASE pos = "Start" -> 0
      [] pos = "Center" -> extent \div 2
      [] OTHER -> extent

\* hpos.point(vpos, [w, h]) -> [x0, y0]
point(hpos, vpos, wh) == <<point1(hpos, wh[1]), point1(vpos, wh[2])>>

\* border_fit: the border and padding are representable at size w x h
border_fit(border, padding, bw, bh) ==
    /\ bw >= resolve_wh(border, padding)[1]
    /\ bh >= resolve_wh(border, padding)[2]

\* Container::new
NewContainer(cid, x0, y0, cw, ch, border, padding) ==
    [id |-> cid, x0 |-> x0, y0 |-> y0, w |-> cw, h |-> ch,
     border |-> border, padding |-> padding, items |-> <<>>]

\* Container::decorate / Text::decorate: the size with the overhead, in u16
decorate(node) ==
    <<AddU16(node.w, resolve_wh(node.border, node.padding)[1]),
      AddU16(node.h, resolve_wh(node.border, node.padding)[2])>>

decorateOverflows(node) ==
    \/ AddOverflows(node.w, resolve_wh(node.border, node.padding)[1])
    \/ AddOverflows(node.h, resolve_wh(node.border, node.padding)[2])

\* area_conflicts: the signed penetration [top, right, bottom, left] of the
\* sibling (ox0, oy0, ow, oh) through each edge of the candidate
\* (x0, y0, w, h); 0 where the sibling does not reach through that edge
area_conflicts(x0, y0, aw, ah, ox0, oy0, ow, oh) ==
    LET top    == IF oy0 <= y0 /\ y0 < oy0 + oh THEN (oy0 + oh) - y0 ELSE 0
        right  == IF x0 < ox0 /\ ox0 < x0 + aw THEN ox0 - (x0 + aw) ELSE 0
        bottom == IF y0 < oy0 /\ oy0 < y0 + ah THEN oy0 - (y0 + ah) ELSE 0
        left   == IF ox0 <= x0 /\ x0 < ox0 + ow THEN (ox0 + ow) - x0 ELSE 0
    IN  <<top, right, bottom, left>>

(***************************************************************************)
(* Lookups and introspection of Term.                                      *)
(***************************************************************************)
Indices(s) == 1 .. Len(s)

\* the first of the positions S that find met, 0 when it met none
First(S) == IF S = {} THEN 0 ELSE CHOOSE i \in S : \A j \in S : i <= j

container_index(t, cid) ==
    First({i \in Indices(t.containers) : t.containers[i].id = cid})

has_container(t, cid) == container_index(t, cid) # 0

container_ref(t, cid) == t.containers[container_index(t, cid)]

\* Term::is_valid_container_id: the id names this Term and no container of
\* the Term holds it yet
is_valid_container_id(t, cid) == cid[1] = t.id /\ ~has_container(t, cid)

(***************************************************************************)
(* Term::assign_valid_container_area                                       *)
(***************************************************************************)
\* some arithmetic operation of the bounds check overflows u16, following the
\* short-circuit order of the condition
BoundsCheckOverflows(t, cont) ==
    LET x0 == cont.x0
        y0 == cont.y0
        dw == decorate(cont)[1]
        dh == decorate(cont)[2]
    IN  \/ decorateOverflows(cont)
        \/ MulOverflows(t.w, t.h)
        \/ MulOverflows(dw, dh)
        \/ /\ ~(MulU16(t.w, t.h) < MulU16(dw, dh))
           /\ ~(x0 > t.w) /\ ~(y0 > t.h) /\ ~(dw > t.w) /\ ~(dh > t.h)
           /\ \/ AddOverflows(x0, dw)
              \/ ~(AddU16(x0, dw) > t.w) /\ AddOverflows(y0, dh)

ContainerOutOfBounds(t, cont) ==
    LET x0 == cont.x0
        y0 == cont.y0
        dw == decorate(cont)[1]
        dh == decorate(cont)[2]
    IN  \/ MulU16(t.w, t.h) < MulU16(dw, dh)
        \/ x0 > t.w
        \/ y0 > t.h
        \/ dw > t.w
        \/ dh > t.h
        \/ AddU16(x0, dw) > t.w
        \/ AddU16(y0, dh) > t.h

\* the conflict case taken as soon as one axis is penetrated
ContainerConflict_either_axis(cont, c) ==
    LET e == area_conflicts(cont.x0, cont.y0, cont.w, cont.h,
                            c.x0, c.y0, c.w, c.h)
    IN  (e[4] > 0 \/ e[2] < 0) \/ (e[1] > 0 \/ e[3] < 0)

\* the conflict case of the overlap loop, for one existing container c
ContainerConflict(cont, c) ==
    LET e == area_conflicts(cont.x0, cont.y0, cont.w, cont.h,
                            c.x0, c.y0, c.w, c.h)
        top    == e[1]
        right  == e[2]
        bottom == e[3]
        left   == e[4]
    IN  (left > 0 \/ right < 0) /\ (top > 0 \/ bottom < 0)

\* "Ok", the SpaceError, or "panic" (an arithmetic overflow with checks on)
assign_valid_container_area(t, cont, dbg) ==
    IF dbg /\ BoundsCheckOverflows(t, cont) THEN "panic"
    ELSE IF ContainerOutOfBounds(t, cont) THEN "AreaOutOfBounds"
    ELSE IF \E i \in Indices(t.containers) : ContainerConflict(cont, t.containers[i])
         THEN "OriginOutOfBounds"
    ELSE "Ok"

(***************************************************************************)
(* Term::new and the result every operation leaves behind.                 *)
(***************************************************************************)
NoId == <<>>

NewTerm(tid, tw, th) ==
    [id |-> tid, w |-> tw, h |-> th, cx |-> 0, cy |-> 0,
     containers |-> <<>>, focused |-> NoId]

\* the last call: the operation, the address it was given (kept for the
\* Container and focus operations, NoId for the others), what it returned
\* ("Ok", the error, or "panic" when the call aborted the program) and the
\* value that came with it, as a sequence: the node an Err hands back, the
\* value of a query, empty when there is none
RetVal(op, id, res, val) == [op |-> op, id |-> id, res |-> res, val |-> val]

Ret(op, id, res) == RetVal(op, id, res, <<>>)

Running == ret.res # "panic"

(***************************************************************************)
(* Term::container                                                         *)
(***************************************************************************)
\* the constructor taking the overhead off an End origin twice
container_resolved_double_extra(t, cid, vpos, hpos, area, border, padding) ==
    LET extra == resolve_wh(border, padding)
        awh == unwrap(area, <<t.w, t.h>>)
        cw == SubU16(awh[1], extra[1])
        ch == SubU16(awh[2], extra[2])
        p == point(hpos, vpos, <<t.w, t.h>>)
        x0 == IF hpos = "End" THEN SubU16(SubU16(p[1], cw), 2 * extra[1]) ELSE p[1]
        y0 == IF vpos = "End" THEN SubU16(SubU16(p[2], ch), 2 * extra[2]) ELSE p[2]
    IN  NewContainer(cid, x0, y0, cw, ch, border, padding)

\* the Container the constructor resolves from the declared intent (u16,
\* wrapping)
container_resolved(t, cid, vpos, hpos, area, border, padding) ==
    LET extra == resolve_wh(border, padding)
        awh == unwrap(area, <<t.w, t.h>>)
        cw == SubU16(awh[1], extra[1])
        ch == SubU16(awh[2], extra[2])
        p == point(hpos, vpos, <<t.w, t.h>>)
        x0 == IF hpos = "End" THEN SubU16(SubU16(p[1], cw), extra[1]) ELSE p[1]
        y0 == IF vpos = "End" THEN SubU16(SubU16(p[2], ch), extra[2]) ELSE p[2]
    IN  NewContainer(cid, x0, y0, cw, ch, border, padding)

\* some subtraction of the constructor underflows u16
container_overflows(t, vpos, hpos, area, border, padding) ==
    LET extra == resolve_wh(border, padding)
        awh == unwrap(area, <<t.w, t.h>>)
        cw == SubU16(awh[1], extra[1])
        ch == SubU16(awh[2], extra[2])
        p == point(hpos, vpos, <<t.w, t.h>>)
    IN  \/ SubOverflows(awh[1], extra[1])
        \/ SubOverflows(awh[2], extra[2])
        \/ hpos = "End" /\ (SubOverflows(p[1], cw) \/ SubOverflows(SubU16(p[1], cw), extra[1]))
        \/ vpos = "End" /\ (SubOverflows(p[2], ch) \/ SubOverflows(SubU16(p[2], ch), extra[2]))

container_result(t, cid, vpos, hpos, area, border, padding, dbg) ==
    IF is_valid_container_id(t, cid) THEN "BadID"
    ELSE IF dbg /\ container_overflows(t, vpos, hpos, area, border, padding) THEN "panic"
    ELSE IF border = "Manual" /\ ~border_fit(border, padding, t.w, t.h)
         THEN "BoundsNotRespected"
    ELSE LET a == assign_valid_container_area(
                    t, container_resolved(t, cid, vpos, hpos, area, border, padding), dbg)
         IN  IF a = "panic" THEN "panic"
             ELSE IF a # "Ok" THEN "BoundsNotRespected"
             ELSE "Ok"

container(cid, vpos, hpos, area, border, padding) ==
    LET res == container_result(term, cid, vpos, hpos, area, border, padding,
                                debug_assertions)
    IN  /\ Running
        /\ res = "Ok" => Len(term.containers) < MaxContainers
        /\ term' = IF res = "Ok"
                   THEN [term EXCEPT !.containers = Append(@,
                            container_resolved(term, cid, vpos, hpos, area, border, padding))]
                   ELSE term
        /\ ret' = Ret("container", cid, res)
        /\ UNCHANGED debug_assertions

(***************************************************************************)
(* Term::push_container                                                    *)
(***************************************************************************)
push_container_result(t, c, dbg) ==
    IF has_container(t, c.id) THEN "IDAlreadyExists"
    ELSE LET a == assign_valid_container_area(t, c, dbg)
         IN  IF a = "panic" THEN "panic"
             ELSE IF a # "Ok" THEN "BoundsNotRespected"
             ELSE "Ok"

\* the Container push_container(c) hands back: c itself inside the Err,
\* none with Ok (c moved into the Term) or when the call aborts
push_container_returned(t, c, dbg) ==
    IF push_container_result(t, c, dbg) \in {"Ok", "panic"} THEN <<>> ELSE <<c>>

\* push_container adding c whatever the checks said
push_container_term_always(t, c, dbg) == [t EXCEPT !.containers = Append(@, c)]

\* the Term after push_container(c) returns
push_container_term(t, c, dbg) ==
    IF push_container_result(t, c, dbg) = "Ok"
    THEN [t EXCEPT !.containers = Append(@, c)]
    ELSE t

push_container(c) ==
    LET res == push_container_result(term, c, debug_assertions)
    IN  /\ Running
        /\ res = "Ok" => Len(term.containers) < MaxContainers
        /\ term' = push_container_term(term, c, debug_assertions)
        /\ ret' = RetVal("push_container", c.id, res,
                         push_container_returned(term, c, debug_assertions))
        /\ UNCHANGED debug_assertions

(***************************************************************************)
(* The placement of Containers into a fresh Term.                          *)
(***************************************************************************)
\* the size of the Term of the model
TermW == 6
TermH == 4

\* the ids handed to Term::container: one of this Term, one of another Term
ContainerIds == {<<0, 0>>, <<1, 0>>}

\* the declared intents handed to Term::container
ContainerPoses == {"Start", "End"}
ContainerAreas == {[kind |-> "Fix", w |-> 3, h |-> 4], [kind |-> "Fix", w |-> 1, h |-> 4]}
ContainerBorders == {"None", "Uniform", "Manual"}

\* the pre-built Containers handed to Term::push_container: bare 3x2 ones
\* that tile the Term, bordered ones with a 1x2 content (3x4 with the border),
\* one that names another Term, one whose decorated width passes 65535 and
\* one that starts past the Term
ContainerGeometries ==
    { <<x0, y0, 3, "None">> : x0 \in {0, 3}, y0 \in {0, 2} }
    \cup { <<x0, 0, 1, "Uniform">> : x0 \in {0, 2, 3} }

PrebuiltContainers ==
    { NewContainer(cid, g[1], g[2], g[3], 2, g[4], "None") :
        cid \in {<<0, 0>>, <<0, 1>>}, g \in ContainerGeometries }
    \cup { NewContainer(<<1, 0>>, 3, 0, 3, 2, "None", "None"),
           NewContainer(<<0, 0>>, 0, 0, 65535, 2, "Uniform", "None"),
           NewContainer(<<0, 1>>, 7, 0, 3, 2, "None", "None") }

Init ==
    /\ term = NewTerm(0, TermW, TermH)
    /\ ret = Ret("new", NoId, "Ok")
    /\ debug_assertions \in BOOLEAN

NextPlacement ==
    \/ \E c \in PrebuiltContainers : push_container(c)
    \/ \E cid \in ContainerIds, hpos \in ContainerPoses, area \in ContainerAreas,
          border \in ContainerBorders :
            container(cid, "Start", hpos, area, border, "None")

SpecPlacement == Init /\ [][NextPlacement]_vars

(***************************************************************************)
(* Text nodes: lookups.                                                    *)
(***************************************************************************)
\* Text::new: the local cursor starts at the origin; value is kept by its
\* length
NewText(tid, x0, y0, ax0, ay0, tw, th, value_len, border, padding) ==
    [id |-> tid, x0 |-> x0, y0 |-> y0, ax0 |-> ax0, ay0 |-> ay0,
     cx |-> 0, cy |-> 0, w |-> tw, h |-> th, value_len |-> value_len,
     border |-> border, padding |-> padding]

Parent(tid) == <<tid[1], tid[2]>>

IsInputId(tid) == tid[3] % 2 = 0

\* position in cont.items of the first input with this id, 0 when none
input_index(cont, tid) ==
    First({k \in Indices(cont.items) :
             cont.items[k].id[3] % 2 = 0 /\ cont.items[k].id = tid})

\* position in cont.items of the first nonedit with this id, 0 when none
nonedit_index(cont, tid) ==
    First({k \in Indices(cont.items) :
             cont.items[k].id[3] % 2 # 0 /\ cont.items[k].id = tid})

has_input(t, tid) ==
    IF has_container(t, Parent(tid))
    THEN input_index(container_ref(t, Parent(tid)), tid) # 0
    ELSE FALSE

has_nonedit(t, tid) ==
    IF has_container(t, Parent(tid))
    THEN nonedit_index(container_ref(t, Parent(tid)), tid) # 0
    ELSE FALSE

\* Term::input_ref(id).unwrap(), where has_input holds
input_ref(t, tid) ==
    LET cont == container_ref(t, Parent(tid)) IN cont.items[input_index(cont, tid)]

\* Term::nonedit_ref(id).unwrap(), where has_nonedit holds
nonedit_ref(t, tid) ==
    LET cont == container_ref(t, Parent(tid)) IN cont.items[nonedit_index(cont, tid)]

\* Term::is_valid_input_id: the parent exists, the id is even and free
is_valid_input_id(t, tid) ==
    has_container(t, Parent(tid)) /\ IsInputId(tid) /\ ~has_input(t, tid)

\* Term::is_valid_nonedit_id: the parent exists, the id is odd and free
is_valid_nonedit_id(t, tid) ==
    has_container(t, Parent(tid)) /\ ~IsInputId(tid) /\ ~has_nonedit(t, tid)

\* Term::tlen
tlen(t) ==
    LET RECURSIVE sum(_)
        sum(k) == IF k = 0 THEN 0 ELSE Len(t.containers[k].items) + sum(k - 1)
    IN  sum(Len(t.containers))

\* Term::clen
clen(t) == Len(t.containers)

\* ilen counting every Text, whatever its parity
ilen_counts_all(t) == tlen(t)

\* Term::ilen: per Container, the items with an even item id, summed
ilen(t) ==
    LET RECURSIVE sum(_)
        sum(k) == IF k = 0 THEN 0
                  ELSE Cardinality({i \in Indices(t.containers[k].items) :
                                      t.containers[k].items[i].id[3] % 2 = 0})
                       + sum(k - 1)
    IN  sum(Len(t.containers))

\* Term::nelen: per Container, the items with an odd item id, summed
nelen(t) ==
    LET RECURSIVE sum(_)
        sum(k) == IF k = 0 THEN 0
                  ELSE Cardinality({i \in Indices(t.containers[k].items) :
                                      t.containers[k].items[i].id[3] % 2 # 0})
                       + sum(k - 1)
    IN  sum(Len(t.containers))

\* push_item moving the Term's cursor back to the origin as it appends
push_item_resets_cursor(t, text) ==
    [t EXCEPT !.containers[container_index(t, Parent(text.id))].items = Append(@, text),
              !.cx = 0, !.cy = 0]

\* the Term with text appended to the items of the container container_mut
\* finds for the text's parent address
push_item(t, text) ==
    [t EXCEPT !.containers[container_index(t, Parent(text.id))].items = Append(@, text)]

(***************************************************************************)
(* Container: the checks of a Text against its parent                      *)
(***************************************************************************)
\* Container::area_out_of_bounds
area_out_of_bounds(cont, wh) == wh[1] > cont.w \/ wh[2] > cont.h

\* Container::origin_out_of_bounds
origin_out_of_bounds(cont, wh, xy) ==
    \/ xy[1] > cont.w
    \/ xy[2] > cont.h
    \/ AddU16(xy[1], wh[1]) > cont.w
    \/ AddU16(xy[2], wh[2]) > cont.h

\* calc_text_abs_ori: the container's origin plus the border/padding offsets
\* plus the local origin
calc_text_abs_ori(xy, border, padding, cont) ==
    <<AddU16(AddU16(cont.x0, lead(cont.border, cont.padding)),
             AddU16(xy[1], lead(border, padding))),
      AddU16(AddU16(cont.y0, lead(cont.border, cont.padding)),
             AddU16(xy[2], lead(border, padding)))>>

TextOutOfBounds(cont, text) ==
    LET dw == decorate(text)[1]
        dh == decorate(text)[2]
    IN  \/ MulU16(cont.w, cont.h) < MulU16(dw, dh)
        \/ text.x0 > cont.w
        \/ text.y0 > cont.h
        \/ dw > cont.w
        \/ dh > cont.h
        \/ AddU16(text.x0, dw) > cont.w
        \/ AddU16(text.y0, dh) > cont.h

TextConflict(text, i) ==
    LET e == area_conflicts(text.x0, text.y0, decorate(text)[1], decorate(text)[2],
                            i.x0, i.y0, decorate(i)[1], decorate(i)[2])
    IN  (e[4] > 0 \/ e[2] < 0) /\ (e[1] > 0 \/ e[3] < 0)

\* Container::assign_valid_text_area: the bounds check and the overlap check
\* of a Text against the container's content area and items
assign_valid_text_area(cont, text) ==
    IF TextOutOfBounds(cont, text) THEN "AreaOutOfBounds"
    ELSE IF \E k \in Indices(cont.items) : TextConflict(text, cont.items[k])
         THEN "OriginOutOfBounds"
    ELSE "Ok"

(***************************************************************************)
(* Term::push_input and Term::push_nonedit                                 *)
(***************************************************************************)
push_input_result(t, i) ==
    IF ~has_container(t, Parent(i.id)) \/ has_input(t, i.id) \/ i.id[3] % 2 # 0
    THEN "BadID"
    ELSE "Ok"

\* the Text push_input(i) hands back: i itself inside the Err
push_input_returned(t, i) ==
    IF push_input_result(t, i) = "Ok" THEN <<>> ELSE <<i>>

\* push_input replacing the items of the Container by the new Text
push_input_term_replaces(t, i) ==
    IF push_input_result(t, i) = "Ok"
    THEN [t EXCEPT !.containers[container_index(t, Parent(i.id))].items = <<i>>]
    ELSE t

\* the Term after push_input(i)
push_input_term(t, i) ==
    IF push_input_result(t, i) = "Ok" THEN push_item(t, i) ELSE t

push_input(i) ==
    LET res == push_input_result(term, i)
    IN  /\ Running
        /\ res = "Ok" => tlen(term) < MaxItems
        /\ term' = push_input_term(term, i)
        /\ ret' = RetVal("push_input", NoId, res, push_input_returned(term, i))
        /\ UNCHANGED debug_assertions

push_nonedit_result(t, ne) ==
    IF ~has_container(t, Parent(ne.id)) \/ has_input(t, ne.id) \/ ne.id[3] % 2 = 0
    THEN "BadID"
    ELSE "Ok"

\* the Text push_nonedit(ne) hands back: ne itself inside the Err
push_nonedit_returned(t, ne) ==
    IF push_nonedit_result(t, ne) = "Ok" THEN <<>> ELSE <<ne>>

\* the Term after push_nonedit(ne)
push_nonedit_term(t, ne) ==
    IF push_nonedit_result(t, ne) = "Ok" THEN push_item(t, ne) ELSE t

push_nonedit(ne) ==
    LET res == push_nonedit_result(term, ne)
    IN  /\ Running
        /\ res = "Ok" => tlen(term) < MaxItems
        /\ term' = push_nonedit_term(term, ne)
        /\ ret' = RetVal("push_nonedit", NoId, res, push_nonedit_returned(term, ne))
        /\ UNCHANGED debug_assertions

(***************************************************************************)
(* Term::input and Term::nonedit                                           *)
(***************************************************************************)
\* the content size the constructors resolve: the declared area less the
\* overhead (u16, wrapping)
text_wh(cont, area, border, padding) ==
    LET extra == resolve_wh(border, padding)
        awh == unwrap(area, <<cont.w, cont.h>>)
    IN  <<SubU16(awh[1], extra[1]), SubU16(awh[2], extra[2])>>

\* the origin the constructors resolve against the container's content size
text_xy(cont, vpos, hpos, area, border, padding) ==
    LET extra == resolve_wh(border, padding)
        wh == text_wh(cont, area, border, padding)
        p == point(hpos, vpos, <<cont.w, cont.h>>)
    IN  <<IF hpos = "End" THEN SubU16(SubU16(p[1], wh[1]), extra[1]) ELSE p[1],
          IF vpos = "End" THEN SubU16(SubU16(p[2], wh[2]), extra[2]) ELSE p[2]>>

text_wh_overflows(cont, area, border, padding) ==
    LET extra == resolve_wh(border, padding)
        awh == unwrap(area, <<cont.w, cont.h>>)
    IN  SubOverflows(awh[1], extra[1]) \/ SubOverflows(awh[2], extra[2])

text_xy_overflows(cont, vpos, hpos, area, border, padding) ==
    LET extra == resolve_wh(border, padding)
        wh == text_wh(cont, area, border, padding)
        p == point(hpos, vpos, <<cont.w, cont.h>>)
    IN  \/ hpos = "End" /\ (SubOverflows(p[1], wh[1]) \/ SubOverflows(SubU16(p[1], wh[1]), extra[1]))
        \/ vpos = "End" /\ (SubOverflows(p[2], wh[2]) \/ SubOverflows(SubU16(p[2], wh[2]), extra[2]))

\* the Text either constructor builds
text_resolved(cont, tid, vpos, hpos, area, border, padding, value_len) ==
    LET wh == text_wh(cont, area, border, padding)
        xy == text_xy(cont, vpos, hpos, area, border, padding)
        axy == calc_text_abs_ori(xy, border, padding, cont)
    IN  NewText(tid, xy[1], xy[2], axy[1], axy[2], wh[1], wh[2], value_len,
                border, padding)

input_result(t, tid, vpos, hpos, area, border, padding, dbg) ==
    IF ~is_valid_input_id(t, tid) THEN "IdAlreadyTaken"
    ELSE LET cont == container_ref(t, Parent(tid))
             wh == text_wh(cont, area, border, padding)
         IN  IF dbg /\ text_wh_overflows(cont, area, border, padding) THEN "panic"
             ELSE IF area_out_of_bounds(cont, wh) THEN "AreaOutOfBounds"
             ELSE IF origin_out_of_bounds(cont, wh, point(hpos, vpos, wh))
                  THEN "OriginOutOfBounds"
             ELSE IF border = "Manual" /\ ~border_fit(border, padding, wh[1], wh[2])
                  THEN "BoundsNotRespected"
             ELSE IF dbg /\ text_xy_overflows(cont, vpos, hpos, area, border, padding)
                  THEN "panic"
             ELSE IF assign_valid_text_area(cont,
                        text_resolved(cont, tid, vpos, hpos, area, border, padding, 0)) # "Ok"
                  THEN "BoundsNotRespected"
             ELSE "Ok"

input(tid, vpos, hpos, area, border, padding) ==
    LET res == input_result(term, tid, vpos, hpos, area, border, padding, debug_assertions)
    IN  /\ Running
        /\ res = "Ok" => tlen(term) < MaxItems
        /\ term' = IF res = "Ok"
                   THEN push_item(term, text_resolved(container_ref(term, Parent(tid)),
                                    tid, vpos, hpos, area, border, padding, 0))
                   ELSE term
        /\ ret' = Ret("input", NoId, res)
        /\ UNCHANGED debug_assertions

\* value.len() as u16 > w * h
value_too_long(value_len, wh) == WrapU16(value_len) > MulU16(wh[1], wh[2])

nonedit_result(t, tid, vpos, hpos, area, border, padding, value_len, dbg) ==
    IF ~is_valid_nonedit_id(t, tid) THEN "BadID"
    ELSE LET cont == container_ref(t, Parent(tid))
             wh == text_wh(cont, area, border, padding)
         IN  IF dbg /\ text_wh_overflows(cont, area, border, padding) THEN "panic"
             ELSE IF border = "Manual" /\ ~border_fit(border, padding, wh[1], wh[2])
                  THEN "BoundsNotRespected"
             ELSE IF dbg /\ text_xy_overflows(cont, vpos, hpos, area, border, padding)
                  THEN "panic"
             ELSE IF dbg /\ MulOverflows(wh[1], wh[2]) THEN "panic"
             ELSE IF value_too_long(value_len, wh) THEN "BadValue"
             ELSE IF assign_valid_text_area(cont,
                        text_resolved(cont, tid, vpos, hpos, area, border, padding,
                                      value_len)) # "Ok"
                  THEN "BoundsNotRespected"
             ELSE "Ok"

nonedit(tid, vpos, hpos, area, border, padding, value_len) ==
    LET res == nonedit_result(term, tid, vpos, hpos, area, border, padding, value_len,
                              debug_assertions)
    IN  /\ Running
        /\ res = "Ok" => tlen(term) < MaxItems
        /\ term' = IF res = "Ok"
                   THEN push_item(term, text_resolved(container_ref(term, Parent(tid)),
                                    tid, vpos, hpos, area, border, padding, value_len))
                   ELSE term
        /\ ret' = Ret("nonedit", NoId, res)
        /\ UNCHANGED debug_assertions

(***************************************************************************)
(* Term::sync_cursor and Term::focus                                       *)
(***************************************************************************)
\* the Text the focused address names, as sync_cursor looks it up
focused_text(t) ==
    IF t.focused[3] % 2 = 0 THEN input_ref(t, t.focused) ELSE nonedit_ref(t, t.focused)

\* either unwrap of sync_cursor meets None, or (checks on) a sum overflows
sync_cursor_panics(t, dbg) ==
    \/ t.focused = NoId
    \/ ~(IF t.focused[3] % 2 = 0 THEN has_input(t, t.focused) ELSE has_nonedit(t, t.focused))
    \/ /\ dbg
       /\ \/ AddOverflows(focused_text(t).ax0, focused_text(t).cx)
          \/ AddOverflows(focused_text(t).ay0, focused_text(t).cy)

\* sync_cursor reading the local origin (x0, y0) where the source reads the
\* cached absolute origin
sync_cursor_term_local(t) ==
    LET text == focused_text(t)
    IN  [t EXCEPT !.cx = AddU16(text.x0, text.cx), !.cy = AddU16(text.y0, text.cy)]

\* sync_cursor writing the cursor into the cached origin of the Text as well
sync_cursor_term_moves_text(t) ==
    LET text == focused_text(t)
        k == container_index(t, Parent(t.focused))
        i == IF t.focused[3] % 2 = 0 THEN input_index(t.containers[k], t.focused)
             ELSE nonedit_index(t.containers[k], t.focused)
    IN  [t EXCEPT !.cx = AddU16(text.ax0, text.cx), !.cy = AddU16(text.ay0, text.cy),
                  !.containers[k].items[i].ax0 = AddU16(text.ax0, text.cx)]

\* the Term after sync_cursor, where it does not panic
sync_cursor_term(t) ==
    LET text == focused_text(t)
    IN  [t EXCEPT !.cx = AddU16(text.ax0, text.cx), !.cy = AddU16(text.ay0, text.cy)]

sync_cursor ==
    /\ Running
    /\ IF sync_cursor_panics(term, debug_assertions)
       THEN term' = term /\ ret' = Ret("sync_cursor", NoId, "panic")
       ELSE term' = sync_cursor_term(term) /\ ret' = Ret("sync_cursor", NoId, "Ok")
    /\ UNCHANGED debug_assertions

\* the condition of focus with the parity test dropped: inputs only
focus_condition_input_only(t, tid) == has_input(t, tid)

\* the condition focus tests: a node of the kind the id's parity implies
focus_condition(t, tid) ==
    IF tid[3] % 2 = 0 THEN has_input(t, tid) ELSE has_nonedit(t, tid)

focus_result(t, tid, dbg) ==
    IF ~focus_condition(t, tid) THEN "BadID"
    ELSE IF sync_cursor_panics([t EXCEPT !.focused = tid], dbg) THEN "panic"
    ELSE "Ok"

\* focus storing the id before it tests the condition
focus_term_stores_first(t, tid) ==
    IF ~focus_condition(t, tid) THEN [t EXCEPT !.focused = tid]
    ELSE sync_cursor_term([t EXCEPT !.focused = tid])

\* the Term after a focus call that returns
focus_term(t, tid) ==
    IF ~focus_condition(t, tid) THEN t
    ELSE sync_cursor_term([t EXCEPT !.focused = tid])

focus(tid) ==
    LET res == focus_result(term, tid, debug_assertions)
    IN  /\ Running
        /\ term' = IF res = "panic" THEN term ELSE focus_term(term, tid)
        /\ ret' = Ret("focus", tid, res)
        /\ UNCHANGED debug_assertions

(***************************************************************************)
(* Term::focused                                                           *)
(***************************************************************************)
\* BadID when nothing is focused; the unwrap of the lookup aborts when it
\* finds no node
focused_result(t) ==
    IF t.focused = NoId THEN "BadID"
    ELSE IF ~(IF t.focused[3] % 2 = 0 THEN has_input(t, t.focused)
              ELSE has_nonedit(t, t.focused))
         THEN "panic"
    ELSE "Ok"

\* focused() answering with the local origin of the node
focused_value_local(t) ==
    IF focused_result(t) = "Ok" THEN <<focused_text(t).x0, focused_text(t).y0>> ELSE <<>>

\* the [ax0, ay0] inside the Ok
focused_value(t) ==
    IF focused_result(t) = "Ok" THEN <<focused_text(t).ax0, focused_text(t).ay0>> ELSE <<>>

focused ==
    /\ Running
    /\ ret' = RetVal("focused", NoId, focused_result(term), focused_value(term))
    /\ UNCHANGED <<term, debug_assertions>>

(***************************************************************************)
(* Term::assign_container_id, assign_input_id, assign_nonedit_id           *)
(***************************************************************************)
\* ids are u8
U8 == 256

\* the scan the three allocators share: walk ids in order, step the
\* candidate while the next id equals it, stop at the first that does not
RECURSIVE scan_ids(_, _, _)
scan_ids(ids, id, step) ==
    IF ids = <<>> THEN id
    ELSE IF Head(ids) = id THEN scan_ids(Tail(ids), (id + step) % U8, step)
    ELSE id

\* cont.id[1] of each Container, in stored order
container_ids(t) == [k \in Indices(t.containers) |-> t.containers[k].id[2]]

\* the item ids cont.items.iter().filter(|i| i.id[2] % 2 == 0) yields
even_item_ids(cont) ==
    LET even(x) == x % 2 = 0
    IN  SelectSeq([k \in Indices(cont.items) |-> cont.items[k].id[3]], even)

\* the item ids cont.items.iter().filter(|i| i.id[2] % 2 != 0) yields
odd_item_ids(cont) ==
    LET odd(x) == x % 2 # 0
    IN  SelectSeq([k \in Indices(cont.items) |-> cont.items[k].id[3]], odd)

\* assign_container_id answering with the number of Containers
assign_container_id_len(t) == Len(t.containers)

assign_container_id_value(t) == scan_ids(container_ids(t), 0, 1)

assign_container_id ==
    /\ Running
    /\ ret' = RetVal("assign_container_id", NoId, "Ok", <<assign_container_id_value(term)>>)
    /\ UNCHANGED <<term, debug_assertions>>

\* where the Container exists; the candidate starts at 0
assign_input_id_value(t, cid) == scan_ids(even_item_ids(container_ref(t, cid)), 0, 2)

\* the unwrap of container_ref aborts when the Term has no such Container
assign_input_id(cid) ==
    /\ Running
    /\ ret' = IF has_container(term, cid)
              THEN RetVal("assign_input_id", cid, "Ok", <<assign_input_id_value(term, cid)>>)
              ELSE Ret("assign_input_id", cid, "panic")
    /\ UNCHANGED <<term, debug_assertions>>

\* where the Container exists; the candidate starts at 0 here too
assign_nonedit_id_value(t, cid) == scan_ids(odd_item_ids(container_ref(t, cid)), 0, 2)

assign_nonedit_id(cid) ==
    /\ Running
    /\ ret' = IF has_container(term, cid)
              THEN RetVal("assign_nonedit_id", cid, "Ok", <<assign_nonedit_id_value(term, cid)>>)
              ELSE Ret("assign_nonedit_id", cid, "panic")
    /\ UNCHANGED <<term, debug_assertions>>

(***************************************************************************)
(* The placement of Text nodes and the focus, in a Term that holds         *)
(* Containers.                                                             *)
(***************************************************************************)
\* the Containers pushed into the fresh Term, in order, before the Text
\* operations start: a bordered Container [0,0] (content 2x2, 4x4 with its
\* border) beside a bare Container [0,1] (2x4)
TextLayout ==
    << NewContainer(<<0, 0>>, 0, 0, 2, 2, "Uniform", "None"),
       NewContainer(<<0, 1>>, 4, 0, 2, 4, "None", "None") >>

\* the Term after push_container of each Container of cs, in order
RECURSIVE PushAll(_, _, _)
PushAll(t, cs, dbg) ==
    IF cs = <<>> THEN t
    ELSE PushAll(push_container_term(t, Head(cs), dbg), Tail(cs), dbg)

InputIds == {<<0, 0, 0>>, <<0, 0, 2>>}
NoneditIds == {<<0, 0, 1>>, <<0, 1, 1>>}
\* an address under no Container
OrphanIds == {<<0, 2, 0>>}
TextIds == InputIds \cup NoneditIds \cup OrphanIds

\* a pre-built Text: NewText, then edited (cursor moved) before the push
Prebuilt(tid, x0, y0, ax0, ay0, cx, tw, th, value_len) ==
    [NewText(tid, x0, y0, ax0, ay0, tw, th, value_len, "None", "None") EXCEPT !.cx = cx]

\* the shapes of the pre-built Texts: two 2x1 rows one under the other (the
\* second with its cursor moved), a 1x1 inside the first that holds 3
\* characters, and one placed far outside any Container
PrebuiltShapes(tid) ==
    { Prebuilt(tid, 0, 0, 1, 1, 0, 2, 1, 2),
      Prebuilt(tid, 0, 1, 1, 2, 1, 2, 1, 1),
      Prebuilt(tid, 1, 0, 2, 1, 0, 1, 1, 3),
      Prebuilt(tid, 9, 0, 65535, 1, 1, 2, 1, 0) }

PrebuiltTexts(ids) == UNION { PrebuiltShapes(tid) : tid \in ids }

TextPoses == {"Start", "End"}
TextAreas == {[kind |-> "Fix", w |-> 2, h |-> 1], [kind |-> "Fix", w |-> 1, h |-> 2]}
TextBorders == {"None", "Uniform"}
ValueLens == {0, 3, 65537}

InitText ==
    /\ debug_assertions \in BOOLEAN
    /\ term = PushAll(NewTerm(0, TermW, TermH), TextLayout, debug_assertions)
    /\ ret = Ret("push_container", NoId, "Ok")

NextText ==
    \/ \E i \in PrebuiltTexts(InputIds \cup {<<0, 0, 1>>} \cup OrphanIds) : push_input(i)
    \/ \E ne \in PrebuiltTexts(NoneditIds \cup {<<0, 0, 0>>}) : push_nonedit(ne)
    \/ \E tid \in {<<0, 0, 0>>, <<0, 0, 1>>}, hpos \in TextPoses, area \in TextAreas,
          border \in TextBorders :
            input(tid, "Start", hpos, area, border, "None")
    \/ \E tid \in {<<0, 0, 1>>, <<0, 2, 1>>}, hpos \in TextPoses, area \in TextAreas,
          value_len \in ValueLens :
            nonedit(tid, "Start", hpos, area, "None", "None", value_len)

SpecText == InitText /\ [][NextText]_vars

\* the Texts of S whose value fits their size
WithinCapacity(S) == {i \in S : i.value_len <= i.w * i.h}

\* the focus operations over a Term that grows by a few Text nodes
NextFocus ==
    \/ \E i \in WithinCapacity(PrebuiltTexts(InputIds \cup OrphanIds)) : push_input(i)
    \/ \E ne \in WithinCapacity(PrebuiltTexts(NoneditIds)) : push_nonedit(ne)
    \/ \E hpos \in TextPoses :
            input(<<0, 0, 0>>, "Start", hpos, [kind |-> "Fix", w |-> 1, h |-> 2],
                  "None", "None")
    \/ \E hpos \in TextPoses :
            nonedit(<<0, 1, 1>>, "Start", hpos, [kind |-> "Fix", w |-> 1, h |-> 2],
                    "None", "None", 0)
    \/ \E tid \in TextIds : focus(tid)
    \/ sync_cursor

SpecFocus == InitText /\ [][NextFocus]_vars

(***************************************************************************)
(* The six placement operations together, from a fresh Term.               *)
(***************************************************************************)
\* the pre-built Containers: the two of TextLayout and one that starts past
\* the Term
TreeContainers ==
    { TextLayout[1], TextLayout[2], NewContainer(<<0, 1>>, 7, 0, 3, 2, "None", "None") }

\* the pre-built Texts handed to push_input: two inputs of Container [0,0]
\* and one under no Container
TreeInputs ==
    { Prebuilt(<<0, 0, 0>>, 0, 0, 1, 1, 0, 2, 1, 2),
      Prebuilt(<<0, 0, 2>>, 0, 1, 1, 2, 1, 2, 1, 1),
      Prebuilt(<<0, 2, 0>>, 0, 0, 1, 1, 0, 2, 1, 2) }

\* the pre-built Texts handed to push_nonedit: a nonedit of each Container
\* and one with an even item id
TreeNonedits ==
    { Prebuilt(<<0, 0, 1>>, 0, 1, 1, 2, 1, 2, 1, 1),
      Prebuilt(<<0, 1, 1>>, 0, 0, 4, 0, 0, 2, 1, 2),
      Prebuilt(<<0, 0, 0>>, 0, 0, 1, 1, 0, 2, 1, 2) }

NextTree ==
    \/ \E c \in TreeContainers : push_container(c)
    \/ \E cid \in ContainerIds, hpos \in ContainerPoses :
            container(cid, "Start", hpos, [kind |-> "Fix", w |-> 1, h |-> 4],
                      "None", "None")
    \/ \E i \in TreeInputs : push_input(i)
    \/ \E ne \in TreeNonedits : push_nonedit(ne)
    \/ \E hpos \in TextPoses :
            input(<<0, 0, 0>>, "Start", hpos, [kind |-> "Fix", w |-> 1, h |-> 2],
                  "None", "None")
    \/ \E hpos \in TextPoses, value_len \in {0, 3} :
            nonedit(<<0, 1, 1>>, "Start", hpos, [kind |-> "Fix", w |-> 1, h |-> 2],
                    "None", "None", value_len)

SpecTree == Init /\ [][NextTree]_vars

(***************************************************************************)
(* A session: the insertions, the focus and the focused() query, from a    *)
(* fresh Term.                                                             *)
(***************************************************************************)
SessionInputs ==
    { Prebuilt(<<0, 0, 0>>, 0, 0, 1, 1, 0, 2, 1, 2),
      Prebuilt(<<0, 0, 2>>, 0, 1, 1, 2, 1, 2, 1, 1) }

SessionNonedits == { Prebuilt(<<0, 1, 1>>, 0, 0, 4, 0, 0, 2, 1, 2) }

SessionFocusIds == {<<0, 0, 0>>, <<0, 0, 2>>, <<0, 1, 1>>}

NextSession ==
    \/ \E k \in Indices(TextLayout) : push_container(TextLayout[k])
    \/ container(<<1, 0>>, "Start", "End", [kind |-> "Fix", w |-> 1, h |-> 4],
                 "None", "None")
    \/ \E i \in SessionInputs : push_input(i)
    \/ \E ne \in SessionNonedits : push_nonedit(ne)
    \/ input(<<0, 0, 0>>, "Start", "End", [kind |-> "Fix", w |-> 1, h |-> 2],
             "None", "None")
    \/ nonedit(<<0, 1, 1>>, "Start", "Start", [kind |-> "Fix", w |-> 1, h |-> 2],
               "None", "None", 0)
    \/ \E tid \in SessionFocusIds : focus(tid)
    \/ sync_cursor
    \/ focused

SpecSession == Init /\ [][NextSession]_vars

(***************************************************************************)
(* Term::container with each anchor on each axis.                          *)
(***************************************************************************)
\* declared sizes: one that holds a border and leaves room on both axes, and
\* one narrower than a border
AnchorAreas ==
    { [kind |-> "Fix", w |-> 3, h |-> 3], [kind |-> "Fix", w |-> 1, h |-> 4] }

AnchorBorders == {"None", "Uniform"}

\* a pre-built Container per id, so that ids of this Term are taken
AnchorContainers ==
    { NewContainer(<<0, 0>>, 0, 0, 3, 2, "None", "None"),
      NewContainer(<<0, 1>>, 3, 2, 3, 2, "None", "None") }

NextAnchor ==
    \/ \E c \in AnchorContainers : push_container(c)
    \/ \E cid \in ContainerIds, vpos \in ContainerPoses, hpos \in ContainerPoses,
          area \in AnchorAreas, border \in AnchorBorders :
            container(cid, vpos, hpos, area, border, "None")

SpecAnchor == Init /\ [][NextAnchor]_vars

(***************************************************************************)
(* The id allocators over Terms whose ids come in any order.               *)
(***************************************************************************)
\* pre-built Containers [0,0], [0,1], [0,2], each at either half of the Term
AssignContainers ==
    { NewContainer(<<0, k>>, x0, 0, 3, 2, "None", "None") : k \in 0 .. 2, x0 \in {0, 3} }

\* pre-built Texts of Container [0,0]: inputs 0 and 2, nonedits 1 and 3
AssignInputs == { Prebuilt(<<0, 0, k>>, 0, 0, 0, 0, 0, 1, 1, 0) : k \in {0, 2} }

AssignNonedits == { Prebuilt(<<0, 0, k>>, 0, 0, 0, 0, 0, 1, 1, 0) : k \in {1, 3} }

AssignParents == {<<0, 0>>, <<0, 1>>}

NextAssign ==
    \/ \E c \in AssignContainers : push_container(c)
    \/ \E i \in AssignInputs : push_input(i)
    \/ \E ne \in AssignNonedits : push_nonedit(ne)
    \/ assign_container_id
    \/ \E cid \in AssignParents : assign_input_id(cid)
    \/ \E cid \in AssignParents : assign_nonedit_id(cid)

SpecAssign == Init /\ [][NextAssign]_vars

(***************************************************************************)
(* Term::push_container with candidates that share one axis, both or none. *)
(***************************************************************************)
\* candidates under each of three ids: the four bare 3x2 tiles of the Term,
\* a bordered one over the right half (1x2 content, 3x4 with its border) and
\* a bare one that passes the right edge
OverlapGeometries ==
    { <<x0, y0, 3, "None">> : x0 \in {0, 3}, y0 \in {0, 2} }
    \cup { <<3, 0, 1, "Uniform">>, <<4, 0, 3, "None">> }

OverlapContainers ==
    { NewContainer(<<0, k>>, g[1], g[2], g[3], 2, g[4], "None") :
        k \in 0 .. 2, g \in OverlapGeometries }

NextOverlap == \E c \in OverlapContainers : push_container(c)

SpecOverlap == Init /\ [][NextOverlap]_vars

(***************************************************************************)
(* Term::push_container into a Term of more than 65535 cells.              *)
(***************************************************************************)
\* the size of the wide Term
WideW == 300
WideH == 250

\* candidates under each of three ids: 100x100 and 10x10 ones inside the
\* Term, one that covers it and one that passes its right edge
WideGeometries ==
    { <<0, 0, 100, 100>>, <<200, 150, 100, 100>>, <<0, 0, 10, 10>>, <<100, 0, 10, 10>>,
      <<290, 240, 10, 10>>, <<0, 0, 300, 250>>, <<250, 0, 100, 100>> }

WideContainers ==
    { NewContainer(<<0, k>>, g[1], g[2], g[3], g[4], "None", "None") :
        k \in 0 .. 2, g \in WideGeometries }

InitWide ==
    /\ term = NewTerm(0, WideW, WideH)
    /\ ret = Ret("new", NoId, "Ok")
    /\ debug_assertions \in BOOLEAN

NextWide == \E c \in WideContainers : push_container(c)

SpecWide == InitWide /\ [][NextWide]_vars

(***************************************************************************)
(* Properties of the placement of Containers.                              *)
(***************************************************************************)
\* the rectangle a Container occupies: origin, content size plus overhead,
\* in unbounded integers
OccW(c) == c.w + resolve_wh(c.border, c.padding)[1]

OccH(c) == c.h + resolve_wh(c.border, c.padding)[2]

\* the occupied rectangles of a and b overlap on both axes at once
OccupiedOverlap(a, b) ==
    /\ a.x0 < b.x0 + OccW(b) /\ b.x0 < a.x0 + OccW(a)
    /\ a.y0 < b.y0 + OccH(b) /\ b.y0 < a.y0 + OccH(a)

\* C1: no two committed sibling Containers have occupied rectangles (content
\* size plus border/padding overhead) that overlap on both axes at once
C1_NoOccupiedOverlap ==
    \A i, j \in Indices(term.containers) :
        i < j => ~OccupiedOverlap(term.containers[i], term.containers[j])

\* C3: the ids of the committed Containers are pairwise distinct, and a call
\* whose id names this Term is rejected for its id (BadID, IDAlreadyExists)
\* only when a Container of the Term holds that id
C3_ContainerIdsDistinct ==
    /\ \A i, j \in Indices(term.containers) :
          i < j => term.containers[i].id # term.containers[j].id
    /\ ( /\ ret.op \in {"container", "push_container"}
         /\ ret.res \in {"BadID", "IDAlreadyExists"}
         /\ ret.id[1] = term.id )
       => has_container(term, ret.id)

\* C4: every committed Container lies inside the Term:
\* x0 + w + w_extra <= Term.w and y0 + h + h_extra <= Term.h
C4_ContainersInsideTerm ==
    \A i \in Indices(term.containers) :
        LET c == term.containers[i]
        IN  c.x0 + OccW(c) <= term.w /\ c.y0 + OccH(c) <= term.h

\* the declared size holds the overhead and is no larger than the Term
AreaFits(t, area, border, padding) ==
    /\ resolve_wh(border, padding)[1] <= area.w /\ area.w <= t.w
    /\ resolve_wh(border, padding)[2] <= area.h /\ area.h <= t.h

TextOccW(i) == i.w + resolve_wh(i.border, i.padding)[1]

TextOccH(i) == i.h + resolve_wh(i.border, i.padding)[2]

\* the Text lies inside the content area of the Container
TextFits(cont, i) ==
    i.x0 + TextOccW(i) <= cont.w /\ i.y0 + TextOccH(i) <= cont.h

\* the rectangles of two Texts overlap on both axes at once
TextOverlap(a, b) ==
    /\ a.x0 < b.x0 + TextOccW(b) /\ b.x0 < a.x0 + TextOccW(a)
    /\ a.y0 < b.y0 + TextOccH(b) /\ b.y0 < a.y0 + TextOccH(a)

\* C2: within every Container the item ids of the Text nodes are pairwise
\* distinct within each parity class
C2_ItemIdsDistinct ==
    \A k \in Indices(term.containers) :
        \A i, j \in Indices(term.containers[k].items) :
            LET a == term.containers[k].items[i]
                b == term.containers[k].items[j]
            IN  (i < j /\ a.id[3] % 2 = b.id[3] % 2) => a.id[3] # b.id[3]

\* C5: a pre-built Text that push_input or push_nonedit adds to a Container
\* fits inside the content area of that Container
C5_PushedTextFits ==
    [][ret'.op \in {"push_input", "push_nonedit"} =>
          \A k \in Indices(term.containers) :
              Len(term'.containers[k].items) > Len(term.containers[k].items) =>
                  TextFits(term'.containers[k],
                           term'.containers[k].items[Len(term'.containers[k].items)])]_vars

\* C6: no two Text nodes of one Container have rectangles that overlap on
\* both axes at once
C6_NoTextOverlap ==
    \A k \in Indices(term.containers) :
        \A i, j \in Indices(term.containers[k].items) :
            i < j => ~TextOverlap(term.containers[k].items[i], term.containers[k].items[j])

\* C7: every committed Text node holds at most w*h characters
C7_ValueWithinCapacity ==
    \A k \in Indices(term.containers) :
        \A i \in Indices(term.containers[k].items) :
            LET t == term.containers[k].items[i]
            IN  t.value_len <= t.w * t.h

(***************************************************************************)
(* Properties of the focus.                                                *)
(***************************************************************************)
\* the places <<k, i>> of the Text nodes with address tid, in any Container
PlacesOf(t, tid) ==
    { p \in UNION { {<<k, i>> : i \in Indices(t.containers[k].items)} :
                    k \in Indices(t.containers) } :
        t.containers[p[1]].items[p[2]].id = tid }

\* a Text node with address tid exists in the tree (its kind is the parity of
\* its item id)
ExistsText(t, tid) == PlacesOf(t, tid) # {}

\* the first Text node with address tid, in tree order
FirstText(t, tid) ==
    LET p == CHOOSE q \in PlacesOf(t, tid) :
                \A r \in PlacesOf(t, tid) :
                    q[1] < r[1] \/ (q[1] = r[1] /\ q[2] <= r[2])
    IN  t.containers[p[1]].items[p[2]]

\* C8: a focus(A) call that returns returns Ok exactly when a Text node with
\* address A exists in the tree
C8_FocusOkIffExists ==
    (ret.op = "focus" /\ ret.res # "panic") =>
        (ret.res = "Ok" <=> ExistsText(term, ret.id))

C8_Witness ==
    /\ ret.op = "focus" /\ ret.res = "Ok" /\ ret.id[3] % 2 = 1
    /\ \E tid \in InputIds : ExistsText(term, tid)

\* C9: right after focus(A) returns Ok, Term.focused is A and the cursor is
\* the cached absolute origin of the Text node at A plus its local cursor
\* offset (sums of u16)
C9_CursorAtFocusedText ==
    (ret.op = "focus" /\ ret.res = "Ok") =>
        /\ term.focused = ret.id
        /\ ExistsText(term, ret.id)
        /\ term.cx = AddU16(FirstText(term, ret.id).ax0, FirstText(term, ret.id).cx)
        /\ term.cy = AddU16(FirstText(term, ret.id).ay0, FirstText(term, ret.id).cy)

C9_Witness ==
    /\ ret.op = "focus" /\ ret.res = "Ok"
    /\ FirstText(term, ret.id).cx # 0
    /\ FirstText(term, ret.id).ax0 # FirstText(term, ret.id).x0
    /\ term.cx = 2 /\ term.cy = 2

\* C10: a focus(A) call with no Text node at A returns BadID, and a focus
\* call that returns an error leaves Term.focused, Term.cx and Term.cy as
\* they were
C10_FailedFocusChangesNothing ==
    [][ret'.op = "focus" =>
          /\ ~ExistsText(term, ret'.id) => ret'.res = "BadID"
          /\ ret'.res \notin {"Ok", "panic"} =>
                /\ ret'.res = "BadID"
                /\ term'.focused = term.focused
                /\ term'.cx = term.cx
                /\ term'.cy = term.cy]_vars

C10_Witness ==
    /\ ret.op = "focus" /\ ret.res = "BadID"
    /\ term.focused # NoId /\ term.cx # 0 /\ term.cy # 0

\* C11: Term.focused is None or the address of a Text node that exists in
\* the tree (whose kind is the one the parity of the address implies)
C11_FocusNeverDangles ==
    term.focused = NoId \/ ExistsText(term, term.focused)

C11_Witness ==
    /\ term.focused # NoId
    /\ ret.op \in {"push_input", "push_nonedit", "input", "nonedit"}
    /\ ret.res = "Ok"

(***************************************************************************)
(* Properties of failed placements.                                        *)
(***************************************************************************)
\* C12: a placement operation that returns an error leaves the tree as it
\* was (same Containers, same items, same order), and a failed push_container,
\* push_input or push_nonedit returns the very node it was given with the error
C12_FailedPlacementChangesNothing ==
    [][ /\ ( /\ ret'.op \in {"container", "push_container", "input", "push_input",
                             "nonedit", "push_nonedit"}
             /\ ret'.res \notin {"Ok", "panic"} )
           => term'.containers = term.containers
        /\ (ret'.op = "push_container" /\ ret'.res \notin {"Ok", "panic"})
           => \A c \in TreeContainers : push_container(c) => ret'.val = <<c>>
        /\ (ret'.op = "push_input" /\ ret'.res # "Ok")
           => \A i \in TreeInputs : push_input(i) => ret'.val = <<i>>
        /\ (ret'.op = "push_nonedit" /\ ret'.res # "Ok")
           => \A ne \in TreeNonedits : push_nonedit(ne) => ret'.val = <<ne>>
      ]_vars

\* a failed push_input, its Text handed back, in a Term that holds two
\* Containers and two Text nodes
C12_Witness ==
    /\ ret.op = "push_input" /\ ret.res = "BadID"
    /\ ret.val = <<Prebuilt(<<0, 0, 0>>, 0, 0, 1, 1, 0, 2, 1, 2)>>
    /\ Len(term.containers) = 2 /\ tlen(term) = 2

\* C13: no placement or focus operation aborts the program: every call
\* returns Ok or an error
C13_NoPanic == ret.res # "panic"

\* C14: push_container rejects a Container whose first id byte is not the
\* Term's id: it returns an error with the Container and adds nothing
C14_PushRejectsForeignContainer ==
    [][(ret'.op = "push_container" /\ ret'.id[1] # term.id) =>
          /\ ret'.res \notin {"Ok", "panic"}
          /\ ret'.val # <<>>
          /\ term'.containers = term.containers]_vars

(***************************************************************************)
(* Properties of the introspection queries.                                *)
(***************************************************************************)
\* the Container and Text addresses the queries are asked about
QueriedContainerIds == { <<t, c>> : t \in 0 .. 1, c \in 0 .. 2 }

QueriedTextIds == { <<0, c, k>> : c \in 0 .. 2, k \in 0 .. 3 }

\* the committed Text nodes whose item id has the given parity (0 or 1)
TextsOfParity(t, parity) ==
    { p \in UNION { {<<k, i>> : i \in Indices(t.containers[k].items)} :
                    k \in Indices(t.containers) } :
        t.containers[p[1]].items[p[2]].id[3] % 2 = parity }

\* C15: the queries agree with the committed tree: clen is the number of
\* Containers, ilen and nelen the numbers of Text nodes with an even and an
\* odd item id, tlen their sum, and has_container, has_input, has_nonedit
\* hold of an address exactly when a committed node of that kind has it
C15_QueriesAgreeWithTree ==
    /\ clen(term) = Cardinality(Indices(term.containers))
    /\ ilen(term) = Cardinality(TextsOfParity(term, 0))
    /\ nelen(term) = Cardinality(TextsOfParity(term, 1))
    /\ tlen(term) = ilen(term) + nelen(term)
    /\ \A cid \in QueriedContainerIds :
          has_container(term, cid) <=>
              \E k \in Indices(term.containers) : term.containers[k].id = cid
    /\ \A tid \in QueriedTextIds :
          /\ has_input(term, tid) <=> (tid[3] % 2 = 0 /\ ExistsText(term, tid))
          /\ has_nonedit(term, tid) <=> (tid[3] % 2 = 1 /\ ExistsText(term, tid))

C15_Witness ==
    /\ clen(term) = 2 /\ ilen(term) = 1 /\ nelen(term) = 1
    /\ has_input(term, <<0, 0, 0>>) /\ has_nonedit(term, <<0, 1, 1>>)
    /\ ~has_input(term, <<0, 1, 1>>) /\ ~has_nonedit(term, <<0, 0, 0>>)

(***************************************************************************)
(* Properties of the focused() query and of the focus fields.              *)
(***************************************************************************)
\* C16: focused() changes no field of the Term; on a Term focused on A it
\* returns the cached absolute origin [ax0, ay0] of the Text node at A, on an
\* unfocused Term it returns an error
C16_FocusedIsReadOnly ==
    [][ret'.op = "focused" =>
          /\ term' = term
          /\ term.focused = NoId => (ret'.res = "BadID" /\ ret'.val = <<>>)
          /\ term.focused # NoId =>
                /\ ret'.res = "Ok"
                /\ ret'.val = <<FirstText(term, term.focused).ax0,
                                FirstText(term, term.focused).ay0>>]_vars

C16_Witness ==
    /\ ret.op = "focused" /\ ret.res = "Ok"
    /\ term.focused = <<0, 0, 2>>
    /\ ret.val = <<1, 2>>
    /\ <<term.cx, term.cy>> # ret.val

\* C18: a focused Term never becomes unfocused again, and Term.focused,
\* Term.cx and Term.cy change only in a focus or sync_cursor call that
\* succeeds: every insertion and every query leaves the three as they were
C18_FocusFieldsChangeOnlyInFocus ==
    [][ /\ term.focused # NoId => term'.focused # NoId
        /\ ~(ret'.op \in {"focus", "sync_cursor"} /\ ret'.res = "Ok") =>
              /\ term'.focused = term.focused
              /\ term'.cx = term.cx
              /\ term'.cy = term.cy ]_vars

C18_Witness ==
    /\ ret.op = "push_container" /\ ret.res = "Ok"
    /\ term.focused # NoId /\ term.cx # 0 /\ term.cy # 0

(***************************************************************************)
(* Properties of the id allocators.                                        *)
(***************************************************************************)
\* the ids of the sequence strictly increase
Increasing(ids) == \A i, j \in Indices(ids) : i < j => ids[i] < ids[j]

\* the lowest id of the given parity class (step 1: every id) outside used
LowestUnused(used, first, step) ==
    LET free == { k \in 0 .. U8 - 1 : k % step = first % step /\ k \notin used }
    IN  CHOOSE k \in free : \A j \in free : k <= j

\* the set of the elements of a sequence
Range(ids) == { ids[i] : i \in Indices(ids) }

\* C19: assign_container_id changes nothing and, when the Containers are
\* stored in increasing id order, returns the lowest container_id that no
\* Container of the Term has
C19_LowestFreeContainerId ==
    [][ret'.op = "assign_container_id" =>
          /\ term' = term
          /\ Increasing(container_ids(term)) =>
                ret'.val = <<LowestUnused(Range(container_ids(term)), 0, 1)>>]_vars

\* ids 0 and 2 stored in order: the answer is the gap between them
C19_Witness ==
    /\ ret.op = "assign_container_id" /\ ret.val = <<1>>
    /\ container_ids(term) = <<0, 2>>

\* C20: for an existing Container whose items of each parity are stored in
\* increasing id order, assign_input_id returns the lowest even item id no
\* input of the Container has and assign_nonedit_id the lowest odd item id
\* no nonedit of the Container has
C20_LowestFreeTextId ==
    [][ /\ ( /\ ret'.op = "assign_input_id" /\ has_container(term, ret'.id)
             /\ Increasing(even_item_ids(container_ref(term, ret'.id))) )
           => ret'.val = <<LowestUnused(Range(even_item_ids(container_ref(term, ret'.id))),
                                        0, 2)>>
        /\ ( /\ ret'.op = "assign_nonedit_id" /\ has_container(term, ret'.id)
             /\ Increasing(odd_item_ids(container_ref(term, ret'.id))) )
           => ret'.val = <<LowestUnused(Range(odd_item_ids(container_ref(term, ret'.id))),
                                        1, 2)>>
      ]_vars

(***************************************************************************)
(* Properties of the border fit check, the overlap check and the bounds    *)
(* arithmetic.                                                             *)
(***************************************************************************)
\* C21: a constructor given a Manual border evaluates the border/padding fit
\* at the resolved size (w, h) of the new node and, when the combination is
\* not representable at that size, rejects the placement and inserts nothing
\* (stated on Term::container, over the intents it is handed)
C21_ManualFitAtNodeSize ==
    [][ret'.op = "container" =>
          \A cid \in ContainerIds, hpos \in ContainerPoses, area \in ContainerAreas :
              LET c == container_resolved(term, cid, "Start", hpos, area, "Manual", "None")
              IN  ( /\ container(cid, "Start", hpos, area, "Manual", "None")
                    /\ ~border_fit("Manual", "None", c.w, c.h) )
                  => /\ ret'.res # "Ok"
                     /\ term'.containers = term.containers
      ]_vars

\* the occupied rectangles of a and b overlap on the x axis, on the y axis
OverlapOnX(a, b) == a.x0 < b.x0 + OccW(b) /\ b.x0 < a.x0 + OccW(a)

OverlapOnY(a, b) == a.y0 < b.y0 + OccH(b) /\ b.y0 < a.y0 + OccH(a)

\* C22: a candidate Container with a free id that lies within the Term and
\* whose rectangle overlaps every sibling on at most one axis passes the
\* area check: push_container returns Ok and appends it
C22_OneAxisOverlapAccepted ==
    [][ret'.op = "push_container" =>
          \A c \in OverlapContainers :
              ( /\ ret'.id = c.id
                /\ ~has_container(term, c.id)
                /\ c.x0 + OccW(c) <= term.w /\ c.y0 + OccH(c) <= term.h
                /\ \A k \in Indices(term.containers) :
                      ~(OverlapOnX(c, term.containers[k]) /\ OverlapOnY(c, term.containers[k]))
                /\ push_container(c) )
              => /\ ret'.res = "Ok"
                 /\ term'.containers = Append(term.containers, c)
      ]_vars

\* a second Container committed right under the first: the two share their
\* whole x range and no row
C22_Witness ==
    /\ ret.op = "push_container" /\ ret.res = "Ok"
    /\ Len(term.containers) = 2
    /\ OverlapOnX(term.containers[1], term.containers[2])
    /\ ~OverlapOnY(term.containers[1], term.containers[2])

\* C23: focus and sync_cursor, succeeding or failing, leave Term.containers
\* (every Container, its items, their ids, geometry, cached absolute origins
\* and values) and the Term's id and size as they were: they write at most
\* Term.focused, Term.cx and Term.cy
C23_FocusLeavesTreeUnchanged ==
    [][ret'.op \in {"focus", "sync_cursor"} =>
          /\ term'.containers = term.containers
          /\ term'.id = term.id /\ term'.w = term.w /\ term'.h = term.h]_vars

\* a focus that moved the cursor onto a Text whose own cursor is off its
\* origin, in a Term of two Text nodes
C23_Witness ==
    /\ ret.op = "focus" /\ ret.res = "Ok"
    /\ tlen(term) = 2
    /\ FirstText(term, term.focused).cx # 0
    /\ term.cx # FirstText(term, term.focused).ax0

\* the bounds comparison of assign_valid_container_area in unbounded integers
OutOfBoundsUnbounded(t, c) ==
    \/ t.w * t.h < OccW(c) * OccH(c)
    \/ c.x0 > t.w
    \/ c.y0 > t.h
    \/ OccW(c) > t.w
    \/ OccH(c) > t.h
    \/ c.x0 + OccW(c) > t.w
    \/ c.y0 + OccH(c) > t.h

\* C24: the bounds check of assign_valid_container_area accepts a candidate
\* exactly when the same comparison in unbounded integers does: no product
\* or sum of the check passes 65535 in a way that changes the verdict
C24_BoundsVerdictIsExact ==
    [][ret'.op = "push_container" =>
          \A c \in WideContainers :
              ( /\ ret'.id = c.id
                /\ ~has_container(term, c.id)
                /\ push_container(c) )
              => ( assign_valid_container_area(term, c, debug_assertions)
                        \in {"Ok", "OriginOutOfBounds"}
                   <=> ~OutOfBoundsUnbounded(term, c) )
      ]_vars

====
